---------------------------- MODULE Spec2Model ----------------------------
(***************************************************************************)
(* The dense linear-algebra kernel of src/comp-lin: dlineq (LU             *)
(* factorization with partial pivoting plus solve), dreslv (solve with     *)
(* cached factors), gauss_jordan_inverse and inverse_matrix_dlineq_dreslv. *)
(*                                                                         *)
(* Numbers: a Python float is modelled as a fraction <<p, q>> in lowest    *)
(* terms with q > 0.  A run computes in one of two arithmetics: "exact",   *)
(* where every operation gives the exact fraction, and "binary", where     *)
(* every operation rounds its result to the nearest binary floating-point  *)
(* number with MantBits significant bits (ties to even, exponent           *)
(* unbounded), as IEEE-754 does with 53 bits.  <<1, 0>> stands for the     *)
(* result of a division by zero, which in Python raises                    *)
(* ZeroDivisionError; the action that performed the division turns it into *)
(* that exception.                                                         *)
(*                                                                         *)
(* Indices: loop indices (k, i, j, pivot_row) and the entries of perm are  *)
(* 0-based as in the source; sequences are 1-based, so At(M, i, j) reads   *)
(* M[i+1][j+1].                                                            *)
(*                                                                         *)
(* Objects: Python lists are mutable objects.  heap maps every list object *)
(* of one run to its content; the object a local name is bound to is given *)
(* by the ...Obj definitions, so that a write through a local name lands   *)
(* in whatever object that name is bound to.                               *)
(*                                                                         *)
(* Intermediate results are passed as operator arguments rather than named *)
(* in LET, so that an operator's definition is expanded once per use.      *)
(***************************************************************************)
EXTENDS Integers, Sequences, FiniteSets, TLC

\* ---------------------------------------------------------------- bounds
MaxN == 3
MaxVal == 1
MaxB == 1
MaxFloatVal == 11
MantBits == 5

\* -------------------------------------------------------------- numbers
IAbs(i) == IF i < 0 THEN -i ELSE i

RECURSIVE GCD(_, _)
GCD(a, b) == IF b = 0 THEN a ELSE GCD(b, a % b)

DivZero == <<1, 0>>

Reduce(p, q, g) == IF q < 0 THEN <<(-p) \div g, (-q) \div g>> ELSE <<p \div g, q \div g>>

Norm(p, q) == IF q = 0 THEN DivZero ELSE Reduce(p, q, GCD(IAbs(p), IAbs(q)))

RECURSIVE Pow2(_)
Pow2(n) == IF n = 0 THEN 1 ELSE 2 * Pow2(n - 1)

\* p doubled until p / q has MantBits bits or more
RECURSIVE Grow(_, _)
Grow(p, q) == IF p >= Pow2(MantBits - 1) * q THEN p ELSE Grow(2 * p, q)

\* q doubled until p / q has MantBits bits or fewer
RECURSIVE Shrink(_, _)
Shrink(p, q) == IF p < Pow2(MantBits) * q THEN q ELSE Shrink(p, 2 * q)

\* p1 / q1 rounded to an integer, ties to even
RoundQuot(p1, q1) ==
    IF 2 * (p1 % q1) > q1 \/ (2 * (p1 % q1) = q1 /\ (p1 \div q1) % 2 = 1)
    THEN (p1 \div q1) + 1
    ELSE p1 \div q1

RoundScaled(p, q, p1, q1) == Norm(RoundQuot(p1, q1) * (q1 \div q), p1 \div p)

RoundGrown(p, q, p1) == RoundScaled(p, q, p1, Shrink(p1, q))

\* p / q > 0 rounded to MantBits significant bits
RoundPos(p, q) == RoundGrown(p, q, Grow(p, q))

Negate(v) == <<-v[1], v[2]>>

Round(v) ==
    IF v[2] = 0 \/ v[1] = 0 THEN v
    ELSE IF v[1] < 0 THEN Negate(RoundPos(-v[1], v[2]))
    ELSE RoundPos(v[1], v[2])

\* The float for the fraction v in the arithmetic ar.
FlOf(ar, v) == IF ar = "binary" THEN Round(v) ELSE v

Fl(ar, p, q) == FlOf(ar, Norm(p, q))

Num(i) == <<i, 1>>
Zero == Num(0)
One == Num(1)

Float(ar, v) == Fl(ar, v[1], v[2])
FAdd(ar, a, b) == Fl(ar, a[1] * b[2] + b[1] * a[2], a[2] * b[2])
FSub(ar, a, b) == Fl(ar, a[1] * b[2] - b[1] * a[2], a[2] * b[2])
FMul(ar, a, b) == Fl(ar, a[1] * b[1], a[2] * b[2])
FDiv(ar, a, b) == Fl(ar, a[1] * b[2], a[2] * b[1])
FAbs(a) == <<IAbs(a[1]), a[2]>>
FGt(a, b) == a[1] * b[2] > b[1] * a[2]

At(M, i, j) == M[i + 1][j + 1]
Put(M, i, j, v) == [M EXCEPT ![i + 1][j + 1] = v]
VecBad(v) == \E i \in DOMAIN v : v[i] = DivZero
MatBad(M) == \E i \in DOMAIN M : VecBad(M[i])

\* --------------------------------------------------------------- dlineq
FloatMatrix(ar, A) ==
    [i \in 1..Len(A) |-> [j \in 1..Len(A) |-> Float(ar, A[i][j])]]

IdentityL(n) == [i \in 1..n |-> [j \in 1..n |-> IF i = j THEN One ELSE Zero]]

InitPerm(n) == [i \in 1..n |-> i - 1]

\* A faulty scan that moves on ties, and so keeps the last maximum; C10 rejects it.
RECURSIVE PivotScan_last(_, _, _, _)
PivotScan_last(U, k, i, pivot_row) ==
    IF i >= Len(U) THEN pivot_row
    ELSE PivotScan_last(U, k, i + 1,
                        IF ~FGt(FAbs(At(U, pivot_row, k)), FAbs(At(U, i, k)))
                        THEN i ELSE pivot_row)

RECURSIVE PivotScan(_, _, _, _)
PivotScan(U, k, i, pivot_row) ==
    IF i >= Len(U) THEN pivot_row
    ELSE PivotScan(U, k, i + 1,
                   IF FGt(FAbs(At(U, i, k)), FAbs(At(U, pivot_row, k)))
                   THEN i ELSE pivot_row)

PivotRow(U, k) == PivotScan(U, k, k + 1, k)

\* A faulty test that never finds the pivot zero; C3 rejects it.
IsSingularPivot_never(U, pivot_row, k) == FALSE

IsSingularPivot(U, pivot_row, k) == At(U, pivot_row, k) = Zero

\* A faulty swap that leaves the rows of U where they are, so that the row
\* found by the pivot search never reaches position k; C13 rejects it.
SwapRows_none(U, k, p) == U

SwapRows(U, k, p) == [U EXCEPT ![k + 1] = U[p + 1], ![p + 1] = U[k + 1]]

\* A faulty swap that leaves the multipliers already stored in L where they
\* are; C1 rejects it.
SwapLPrefix_none(L, k, p) == L

SwapLPrefix(L, k, p) ==
    [i \in 1..Len(L) |->
        [j \in 1..Len(L[i]) |->
            IF j - 1 < k /\ i - 1 = k THEN L[p + 1][j]
            ELSE IF j - 1 < k /\ i - 1 = p THEN L[k + 1][j]
            ELSE L[i][j]]]

SwapPerm(perm, k, p) == [perm EXCEPT ![k + 1] = perm[p + 1], ![p + 1] = perm[k + 1]]

\* The inner loop over j, lines 63-66; r holds U and mcount.
RECURSIVE ElimCols(_, _, _, _, _, _)
ElimCols(ar, r, i, k, multiplier, j) ==
    IF j >= Len(r.U) THEN r
    ELSE ElimCols(ar,
                  [U |-> Put(r.U, i, j,
                             FSub(ar, At(r.U, i, j), FMul(ar, multiplier, At(r.U, k, j)))),
                   L |-> r.L,
                   mcount |-> r.mcount + 1],
                  i, k, multiplier, j + 1)

\* Lines 61-62 for row i: the multiplier is stored in L, then the inner loop runs.
ElimRow(ar, r, k, i, multiplier) ==
    ElimCols(ar, [U |-> r.U, L |-> Put(r.L, i, k, multiplier), mcount |-> r.mcount],
             i, k, multiplier, k)

\* The loop over i, lines 60-66; r holds U, L and mcount.
RECURSIVE ElimRows(_, _, _, _)
ElimRows(ar, r, k, i) ==
    IF i >= Len(r.U) THEN r
    ELSE ElimRows(ar, ElimRow(ar, r, k, i, FDiv(ar, At(r.U, i, k), At(r.U, k, k))), k, i + 1)

Eliminate(ar, U, L, k, c) == ElimRows(ar, [U |-> U, L |-> L, mcount |-> c], k, k + 1)

\* A faulty permutation step that takes b in its original order; C2 rejects it.
PermuteB_identity(ar, perm, b, n) == [i \in 1..n |-> Float(ar, b[i])]

PermuteB(ar, perm, b, n) == [i \in 1..n |-> Float(ar, b[perm[i] + 1])]

ZeroVec(n) == [i \in 1..n |-> Zero]

\* The inner loop of the forward substitution, lines 79-81; r holds s and mcount.
RECURSIVE FwdSum(_, _, _, _, _, _)
FwdSum(ar, L, y, i, j, r) ==
    IF j >= i THEN r
    ELSE FwdSum(ar, L, y, i, j + 1,
                [s |-> FAdd(ar, r.s, FMul(ar, At(L, i, j), y[j + 1])), mcount |-> r.mcount + 1])

\* Line 82, with the inner loop's result r.
FwdStore(ar, Pb, y, i, r) ==
    [y |-> [y EXCEPT ![i + 1] = FSub(ar, Pb[i + 1], r.s)], mcount |-> r.mcount]

\* The loop over i, lines 77-82; r holds y and mcount.
RECURSIVE FwdRows(_, _, _, _, _)
FwdRows(ar, L, Pb, r, i) ==
    IF i >= Len(r.y) THEN r
    ELSE FwdRows(ar, L, Pb,
                 FwdStore(ar, Pb, r.y, i,
                          FwdSum(ar, L, r.y, i, 0, [s |-> Zero, mcount |-> r.mcount])),
                 i + 1)

Forward(ar, L, Pb, n, c) == FwdRows(ar, L, Pb, [y |-> ZeroVec(n), mcount |-> c], 0)

\* The inner loop of the back substitution, lines 88-90; r holds s and mcount.
RECURSIVE BwdSum(_, _, _, _, _, _)
BwdSum(ar, U, x, i, j, r) ==
    IF j >= Len(x) THEN r
    ELSE BwdSum(ar, U, x, i, j + 1,
                [s |-> FAdd(ar, r.s, FMul(ar, At(U, i, j), x[j + 1])), mcount |-> r.mcount + 1])

\* Line 91, with the inner loop's result r.
BwdStore(ar, U, y, x, i, r) ==
    [x |-> [x EXCEPT ![i + 1] = FDiv(ar, FSub(ar, y[i + 1], r.s), At(U, i, i))],
     mcount |-> r.mcount]

\* The loop over i, lines 86-91; r holds x and mcount.
RECURSIVE BwdRows(_, _, _, _, _)
BwdRows(ar, U, y, r, i) ==
    IF i < 0 THEN r
    ELSE BwdRows(ar, U, y,
                 BwdStore(ar, U, y, r.x, i,
                          BwdSum(ar, U, r.x, i, i + 1, [s |-> Zero, mcount |-> r.mcount])),
                 i - 1)

Backward(ar, U, y, n, c) == BwdRows(ar, U, y, [x |-> ZeroVec(n), mcount |-> c], n - 1)

\* --------------------------------------------------------------- dreslv
\* The same fault in dreslv; C5 rejects it.
DrPermuteB_identity(ar, perm, b, n) == [i \in 1..n |-> Float(ar, b[i])]

DrPermuteB(ar, perm, b, n) ==
    [i \in 1..n |-> Float(ar, b[perm[i] + 1])]

RECURSIVE DrFwdSum(_, _, _, _, _, _)
DrFwdSum(ar, L, y, i, j, r) ==
    IF j >= i THEN r
    ELSE DrFwdSum(ar, L, y, i, j + 1,
                  [s |-> FAdd(ar, r.s, FMul(ar, At(L, i, j), y[j + 1])), mcount |-> r.mcount + 1])

DrFwdStore(ar, Pb, y, i, r) ==
    [y |-> [y EXCEPT ![i + 1] = FSub(ar, Pb[i + 1], r.s)], mcount |-> r.mcount]

RECURSIVE DrFwdRows(_, _, _, _, _)
DrFwdRows(ar, L, Pb, r, i) ==
    IF i >= Len(r.y) THEN r
    ELSE DrFwdRows(ar, L, Pb,
                   DrFwdStore(ar, Pb, r.y, i,
                              DrFwdSum(ar, L, r.y, i, 0, [s |-> Zero, mcount |-> r.mcount])),
                   i + 1)

DrForward(ar, L, Pb, n, c) == DrFwdRows(ar, L, Pb, [y |-> ZeroVec(n), mcount |-> c], 0)

RECURSIVE DrBwdSum(_, _, _, _, _, _)
DrBwdSum(ar, U, x, i, j, r) ==
    IF j >= Len(x) THEN r
    ELSE DrBwdSum(ar, U, x, i, j + 1,
                  [s |-> FAdd(ar, r.s, FMul(ar, At(U, i, j), x[j + 1])), mcount |-> r.mcount + 1])

DrBwdStore(ar, U, y, x, i, r) ==
    [x |-> [x EXCEPT ![i + 1] = FDiv(ar, FSub(ar, y[i + 1], r.s), At(U, i, i))],
     mcount |-> r.mcount]

RECURSIVE DrBwdRows(_, _, _, _, _)
DrBwdRows(ar, U, y, r, i) ==
    IF i < 0 THEN r
    ELSE DrBwdRows(ar, U, y,
                   DrBwdStore(ar, U, y, r.x, i,
                              DrBwdSum(ar, U, r.x, i, i + 1, [s |-> Zero, mcount |-> r.mcount])),
                   i - 1)

DrBackward(ar, U, y, n, c) == DrBwdRows(ar, U, y, [x |-> ZeroVec(n), mcount |-> c], n - 1)

\* ------------------------------------------------- gauss_jordan_inverse
Augment(ar, A) ==
    [i \in 1..Len(A) |->
        [j \in 1..(2 * Len(A)) |->
            IF j <= Len(A) THEN Float(ar, A[i][j])
            ELSE IF i = j - Len(A) THEN One ELSE Zero]]

RECURSIVE GJPivotScan(_, _, _, _)
GJPivotScan(M, k, i, pivot_row) ==
    IF i >= Len(M) THEN pivot_row
    ELSE GJPivotScan(M, k, i + 1,
                     IF FGt(FAbs(At(M, i, k)), FAbs(At(M, pivot_row, k)))
                     THEN i ELSE pivot_row)

GJPivotRow(M, k) == GJPivotScan(M, k, k + 1, k)

GJIsSingularPivot(M, pivot_row, k) == At(M, pivot_row, k) = Zero

GJSwapRows(M, k, p) == [M EXCEPT ![k + 1] = M[p + 1], ![p + 1] = M[k + 1]]

RECURSIVE GJNormCols(_, _, _, _, _)
GJNormCols(ar, M, k, pivot, j) ==
    IF j >= 2 * Len(M) THEN M
    ELSE GJNormCols(ar, Put(M, k, j, FDiv(ar, At(M, k, j), pivot)), k, pivot, j + 1)

GJNormalize(ar, M, k) == GJNormCols(ar, M, k, At(M, k, k), 0)

RECURSIVE GJElimCols(_, _, _, _, _, _)
GJElimCols(ar, M, i, k, factor, j) ==
    IF j >= 2 * Len(M) THEN M
    ELSE GJElimCols(ar, Put(M, i, j, FSub(ar, At(M, i, j), FMul(ar, factor, At(M, k, j)))),
                    i, k, factor, j + 1)

RECURSIVE GJElimRows(_, _, _, _)
GJElimRows(ar, M, k, i) ==
    IF i >= Len(M) THEN M
    ELSE GJElimRows(ar, IF i # k THEN GJElimCols(ar, M, i, k, At(M, i, k), 0) ELSE M, k, i + 1)

\* A faulty elimination that clears column k only in the rows below row k, as
\* the LU loop does; C11 rejects it.
GJEliminate_below(ar, M, k) == GJElimRows(ar, M, k, k + 1)

GJEliminate(ar, M, k) == GJElimRows(ar, M, k, 0)

GJExtract(M) == [i \in 1..Len(M) |-> [j \in 1..Len(M) |-> M[i][Len(M) + j]]]

\* ------------------------------------------------------ objects (heap)

\* A faulty binding that makes U the caller's A instead of a copy; C4 rejects it.
UObj_alias == "A"

\* The list object each local name is bound to when it is created.
UObj == "U"
LObj == "L"
PermObj == "perm"
PbObj == "Pb"
YObj == "y"
XObj == "x"
DrPbObj == "Pb"
DrYObj == "y"
DrXObj == "x"
MObj == "M"
GJInvObj == "A_inv"
InvObj == "A_inv"
EObj == "e"

EmptyHeap(A) ==
    [A |-> A, b |-> <<>>, b2 |-> <<>>, e |-> <<>>, U |-> <<>>, L |-> <<>>, perm |-> <<>>,
     Pb |-> <<>>, y |-> <<>>, x |-> <<>>, M |-> <<>>, A_inv |-> <<>>]

\* A write of the value v through the name bound to the object obj.
Store(h, obj, v) == [h EXCEPT ![obj] = v]

\* dlineq, lines 14-39: the working copies.
DlEnter(ar, h) ==
    Store(Store(Store(h, UObj, FloatMatrix(ar, h.A)), LObj, IdentityL(Len(h.A))),
          PermObj, InitPerm(Len(h.A)))

\* dlineq, lines 53-57: the swap, taken when pivot_row # k.
DlSwapL(h, k, p) == Store(h, LObj, SwapLPrefix(h[LObj], k, p))
DlSwapP(h, k, p) == Store(h, PermObj, SwapPerm(h[PermObj], k, p))
DlSwapHeap(h, k, p) == DlSwapP(DlSwapL(Store(h, UObj, SwapRows(h[UObj], k, p)), k, p), k, p)

\* dlineq, lines 60-66: r is the result of the elimination loop.
DlElimStore(h, r) ==
    [heap |-> Store(Store(h, UObj, r.U), LObj, r.L),
     mcount |-> r.mcount,
     bad |-> MatBad(r.U) \/ MatBad(r.L)]

DlElimHeap(ar, h, k, c) == DlElimStore(h, Eliminate(ar, h[UObj], h[LObj], k, c))

\* dlineq, lines 70-73; bref is the object the parameter b is bound to.
DlPermuteHeap(ar, h, bref) ==
    Store(h, PbObj, PermuteB(ar, h[PermObj], h[bref], Len(h.A)))

\* dlineq, lines 76-82: fw is the result of the forward substitution.
DlForwardStore(h, fw) == [heap |-> Store(h, YObj, fw.y), mcount |-> fw.mcount]

\* A faulty forward substitution that restarts the count at 0 and so drops the
\* elimination multiplications; C12 rejects it.
DlForwardHeap_reset(ar, h, c) ==
    DlForwardStore(h, Forward(ar, h[LObj], h[PbObj], Len(h.A), 0))

DlForwardHeap(ar, h, c) == DlForwardStore(h, Forward(ar, h[LObj], h[PbObj], Len(h.A), c))

\* dlineq, lines 85-91: bw is the result of the back substitution.
DlBackwardStore(h, bw) ==
    [heap |-> Store(h, XObj, bw.x), mcount |-> bw.mcount, bad |-> VecBad(bw.x)]

DlBackwardHeap(ar, s) ==
    DlBackwardStore(s.heap, Backward(ar, s.heap[UObj], s.heap[YObj], Len(s.heap.A), s.mcount))

\* dlineq, lines 70-91.
DlSolveHeap(ar, h, bref, c) ==
    DlBackwardHeap(ar, DlForwardHeap(ar, DlPermuteHeap(ar, h, bref), c))

\* dreslv, lines 17-19.
DrPermuteHeap(ar, h, lref, pref, bref) ==
    Store(h, DrPbObj, DrPermuteB(ar, h[pref], h[bref], Len(h[lref])))

\* dreslv, lines 22-28.
DrForwardStore(h, fw) == [heap |-> Store(h, DrYObj, fw.y), mcount |-> fw.mcount]

DrForwardHeap(ar, h, lref) ==
    DrForwardStore(h, DrForward(ar, h[lref], h[DrPbObj], Len(h[lref]), 0))

\* dreslv, lines 31-37.
DrBackwardStore(h, bw) ==
    [heap |-> Store(h, DrXObj, bw.x), mcount |-> bw.mcount, bad |-> VecBad(bw.x)]

DrBackwardHeap(ar, s, lref, uref) ==
    DrBackwardStore(s.heap,
                    DrBackward(ar, s.heap[uref], s.heap[DrYObj], Len(s.heap[lref]), s.mcount))

\* dreslv, lines 13-39, called with the objects lref, uref, pref, bref.
DreslvHeap(ar, h, lref, uref, pref, bref) ==
    DrBackwardHeap(ar, DrForwardHeap(ar, DrPermuteHeap(ar, h, lref, pref, bref), lref),
                   lref, uref)

\* gauss_jordan_inverse, lines 8-22.
GJEnter(ar, h) == Store(h, MObj, Augment(ar, h.A))

\* gauss_jordan_inverse, lines 40-42.
GJNormHeap(ar, h, k) == Store(h, MObj, GJNormalize(ar, h[MObj], k))

\* gauss_jordan_inverse, lines 45-49: h1 is the heap after the normalisation.
GJElimStore(h1, M2) ==
    [heap |-> Store(h1, MObj, M2), bad |-> MatBad(h1[MObj]) \/ MatBad(M2)]

GJElimAfterNorm(ar, h1, k) == GJElimStore(h1, GJEliminate(ar, h1[MObj], k))

\* gauss_jordan_inverse, lines 40-49.
GJElimHeap(ar, h, k) == GJElimAfterNorm(ar, GJNormHeap(ar, h, k), k)

\* gauss_jordan_inverse, lines 52-59.
GJExtractHeap(h) == Store(h, GJInvObj, GJExtract(h[MObj]))


\* A faulty total that charges every column the cost of a full dlineq call;
\* C8 rejects it.
Accumulate_full(total, m1, mk) == total + m1

\* A faulty assignment that writes the solution into row c; C6 rejects it.
SetCol_row(M, c, x) == [M EXCEPT ![c + 1] = x]

\* inverse_matrix_dlineq_dreslv: the multiplication total after a dreslv
\* call that reported mk, m1 being the count dlineq reported.
Accumulate(total, m1, mk) == total + mk
ZeroMatrix(n) == [i \in 1..n |-> [j \in 1..n |-> Zero]]
UnitVec(n, c) == [i \in 1..n |-> IF i - 1 = c THEN One ELSE Zero]
SetCol(M, c, x) == [i \in 1..Len(M) |-> [M[i] EXCEPT ![c + 1] = x[i]]]

\* ------------------------------------------------------- the exceptions
NoError == [type |-> "none", args |-> <<>>]
SingularFactorize == [type |-> "ValueError", args |-> <<"Matrix is singular; cannot factorize.">>]
SingularInvert == [type |-> "ValueError", args |-> <<"Matrix is singular; cannot invert.">>]
ZeroDivision == [type |-> "ZeroDivisionError", args |-> <<"float division by zero">>]

\* --------------------------------------------------------------- inputs
DemoA == <<<<4, 7>>, <<2, 6>>>>
DemoB == <<<<1, 2, 3>>, <<0, 1, 4>>, <<5, 6, 0>>>>
Vals == 0..MaxVal
SignedVals == (-MaxVal)..MaxVal
Inputs ==
    {DemoA, DemoB}
        \cup UNION {[1..n -> [1..n -> Vals]] : n \in 1..MaxN}
        \cup UNION {[1..n -> [1..n -> SignedVals]] : n \in 1..(MaxN - 1)}
NumVec(v) == [i \in 1..Len(v) |-> Num(v[i])]
NumMatrix(a) == [i \in 1..Len(a) |-> NumVec(a[i])]
BVecs(n) == [1..n -> 0..MaxB]
\* Inputs for binary arithmetic: 2 x 2 matrices whose first column holds
\* integers up to MaxFloatVal, which divide inexactly.
FloatInputs ==
    {DemoA} \cup {<<<<a, c>>, <<b, d>>>> : a \in 1..MaxFloatVal, b \in 1..MaxFloatVal,
                                          c \in 0..1, d \in 0..1}

\* ------------------------------------------- whole calls, as functions
Outcome(h, c, e) == [heap |-> h, mcount |-> c, err |-> e]

\* dlineq's factorization loop, lines 42-66, from iteration k on.
RECURSIVE DlFactorRun(_, _, _, _)
RECURSIVE DlFactorPivot(_, _, _, _, _)
RECURSIVE DlFactorElim(_, _, _, _)

DlFactorElim(ar, r, k, c) ==
    IF r.bad THEN Outcome(r.heap, c, ZeroDivision)
    ELSE DlFactorRun(ar, r.heap, k + 1, r.mcount)

DlFactorPivot(ar, h, k, c, p) ==
    IF IsSingularPivot(h[UObj], p, k) THEN Outcome(h, c, SingularFactorize)
    ELSE DlFactorElim(ar, DlElimHeap(ar, IF p # k THEN DlSwapHeap(h, k, p) ELSE h, k, c), k, c)

DlFactorRun(ar, h, k, c) ==
    IF k >= Len(h.A) THEN Outcome(h, c, NoError)
    ELSE DlFactorPivot(ar, h, k, c, PivotRow(h[UObj], k))

DlSolveOutcome(s) == Outcome(s.heap, s.mcount, IF s.bad THEN ZeroDivision ELSE NoError)

DlineqSolve(ar, f, bref) ==
    IF f.err # NoError THEN f
    ELSE DlSolveOutcome(DlSolveHeap(ar, f.heap, bref, f.mcount))

\* dlineq(A, b) on the heap h, b being the object bref.
DlineqRun(ar, h, bref) == DlineqSolve(ar, DlFactorRun(ar, DlEnter(ar, h), 0, 0), bref)

\* gauss_jordan_inverse's loop, lines 25-49, from iteration k on.
RECURSIVE GJLoopRun(_, _, _)
RECURSIVE GJLoopPivot(_, _, _, _)
RECURSIVE GJLoopElim(_, _, _)

GJLoopElim(ar, r, k) ==
    IF r.bad THEN [heap |-> r.heap, err |-> ZeroDivision]
    ELSE GJLoopRun(ar, r.heap, k + 1)

GJLoopPivot(ar, h, k, p) ==
    IF GJIsSingularPivot(h[MObj], p, k) THEN [heap |-> h, err |-> SingularInvert]
    ELSE GJLoopElim(ar,
                    GJElimHeap(ar, IF p # k THEN Store(h, MObj, GJSwapRows(h[MObj], k, p)) ELSE h,
                               k),
                    k)

GJLoopRun(ar, h, k) ==
    IF k >= Len(h.A) THEN [heap |-> h, err |-> NoError]
    ELSE GJLoopPivot(ar, h, k, GJPivotRow(h[MObj], k))

GJExtractOutcome(f) ==
    IF f.err # NoError THEN f ELSE [heap |-> GJExtractHeap(f.heap), err |-> NoError]

\* gauss_jordan_inverse(A) on the heap h.
GJRun(ar, h) == GJExtractOutcome(GJLoopRun(ar, GJEnter(ar, h), 0))

\* ---------------------------------------------------------------- state
VARIABLES
    arith,       \* the arithmetic of this run: "exact" or "binary"
    heap,        \* object name -> content of that list object
    pc,          \* where the running call stands
    op,          \* the operation the caller invoked: dlineq, gj or inv
    k,           \* the outer loop index of dlineq / gauss_jordan_inverse
    pivot_row,   \* the local pivot_row
    swapped,     \* whether the last pivot step took the swap branch
    mcount,      \* the running callee's local mcount
    total_mult,  \* inverse_matrix_dlineq_dreslv's total_mult
    col,         \* inverse_matrix_dlineq_dreslv's loop index k
    err,         \* the exception raised, NoError while none
    ret,         \* the value last returned to a caller
    saved,       \* the caller's L, U, perm, unpacked from dlineq's result
    snap         \* the arguments' contents as they were when last passed

vars == <<arith, heap, pc, op, k, pivot_row, swapped, mcount, total_mult, col, err, ret, saved, snap>>

N == Len(heap.A)
NoRet == [kind |-> "none"]
NoSaved == [L |-> "none", U |-> "none", perm |-> "none", mcount |-> 0]
BRef == IF op = "inv" THEN EObj ELSE "b"

InitWith(mode, inputs) ==
    /\ arith = mode
    /\ \E a \in inputs : heap = EmptyHeap(NumMatrix(a))
    /\ pc = "idle"
    /\ op = "none"
    /\ k = 0
    /\ pivot_row = 0
    /\ swapped = FALSE
    /\ mcount = 0
    /\ total_mult = 0
    /\ col = 0
    /\ err = NoError
    /\ ret = NoRet
    /\ saved = NoSaved
    /\ snap = [A |-> <<>>, b |-> <<>>, L |-> <<>>, U |-> <<>>, perm |-> <<>>]

Init == InitWith("exact", Inputs)

InitFloat == InitWith("binary", FloatInputs)

Raise(e) ==
    /\ pc' = "raised"
    /\ err' = e
    /\ UNCHANGED <<arith, heap, op, k, pivot_row, swapped, mcount, total_mult, col, ret, saved, snap>>

\* The caller invokes dlineq(A, b).
DlineqEntered(h0, bref) ==
    /\ heap' = DlEnter(arith, h0)
    /\ snap' = [snap EXCEPT !.A = h0.A, !.b = h0[bref]]

CallDlineq ==
    /\ pc = "idle"
    /\ \E b \in BVecs(N) : DlineqEntered(Store(heap, "b", NumVec(b)), "b")
    /\ op' = "dlineq"
    /\ mcount' = 0
    /\ k' = 0
    /\ pc' = "dl_select"
    /\ UNCHANGED <<arith, pivot_row, swapped, total_mult, col, err, ret, saved>>

\* dlineq, lines 44-47.
DlSelect ==
    /\ pc = "dl_select"
    /\ pivot_row' = PivotRow(heap[UObj], k)
    /\ pc' = "dl_swap"
    /\ UNCHANGED <<arith, heap, op, k, swapped, mcount, total_mult, col, err, ret, saved, snap>>

\* dlineq, lines 49-57.
DlSwap ==
    /\ pc = "dl_swap"
    /\ IF IsSingularPivot(heap[UObj], pivot_row, k)
       THEN Raise(SingularFactorize)
       ELSE /\ IF pivot_row # k
               THEN heap' = DlSwapHeap(heap, k, pivot_row) /\ swapped' = TRUE
               ELSE heap' = heap /\ swapped' = FALSE
            /\ pc' = "dl_elim"
            /\ UNCHANGED <<arith, op, k, pivot_row, mcount, total_mult, col, err, ret, saved, snap>>

\* dlineq, lines 60-66, and the loop's next test.
DlEliminated(r) ==
    IF r.bad
    THEN Raise(ZeroDivision)
    ELSE /\ heap' = r.heap
         /\ mcount' = r.mcount
         /\ k' = k + 1
         /\ pc' = IF k + 1 < N THEN "dl_select" ELSE "dl_solve"
         /\ UNCHANGED <<arith, op, pivot_row, swapped, total_mult, col, err, ret, saved, snap>>

DlElim ==
    /\ pc = "dl_elim"
    /\ DlEliminated(DlElimHeap(arith, heap, k, mcount))

\* dlineq, lines 70-93.
DlSolved(r) ==
    IF r.bad
    THEN Raise(ZeroDivision)
    ELSE /\ heap' = r.heap
         /\ mcount' = r.mcount
         /\ ret' = [kind |-> "dlineq", x |-> XObj, L |-> LObj, U |-> UObj,
                    perm |-> PermObj, mcount |-> r.mcount]
         /\ saved' = [L |-> LObj, U |-> UObj, perm |-> PermObj, mcount |-> r.mcount]
         /\ pc' = "dl_ret"
         /\ UNCHANGED <<arith, op, k, pivot_row, swapped, total_mult, col, err, snap>>

DlSolve ==
    /\ pc = "dl_solve"
    /\ DlSolved(DlSolveHeap(arith, heap, BRef, mcount))

\* The caller invokes dreslv(L, U, perm, b) on the factors it kept.
DreslvReturned(r) ==
    IF r.bad
    THEN /\ pc' = "raised" /\ err' = ZeroDivision
         /\ UNCHANGED <<heap, mcount, ret>>
    ELSE /\ heap' = r.heap
         /\ mcount' = r.mcount
         /\ ret' = [kind |-> "dreslv", x |-> DrXObj, mcount |-> r.mcount]
         /\ pc' = "dr_ret"
         /\ err' = err

\* dreslv is entered with the heap h0, its parameter b bound to bref.
DreslvEntered(h0, bref) ==
    snap' = [snap EXCEPT !.b = h0[bref], !.L = h0[saved.L], !.U = h0[saved.U],
                         !.perm = h0[saved.perm]]

DreslvCalled(h0) ==
    /\ DreslvEntered(h0, "b2")
    /\ DreslvReturned(DreslvHeap(arith, h0, saved.L, saved.U, saved.perm, "b2"))

CallDreslv ==
    /\ pc \in {"dl_ret", "dr_ret"}
    /\ op = "dlineq"
    /\ \E b \in BVecs(N) : DreslvCalled(Store(heap, "b2", NumVec(b)))
    /\ UNCHANGED <<arith, op, k, pivot_row, swapped, total_mult, col, saved>>

\* The caller invokes gauss_jordan_inverse(A); lines 6-22.
CallGJ ==
    /\ pc = "idle"
    /\ heap' = GJEnter(arith, heap)
    /\ snap' = [snap EXCEPT !.A = heap.A]
    /\ op' = "gj"
    /\ k' = 0
    /\ pc' = "gj_select"
    /\ UNCHANGED <<arith, pivot_row, swapped, mcount, total_mult, col, err, ret, saved>>

\* gauss_jordan_inverse, lines 27-30.
GJSelect ==
    /\ pc = "gj_select"
    /\ pivot_row' = GJPivotRow(heap[MObj], k)
    /\ pc' = "gj_swap"
    /\ UNCHANGED <<arith, heap, op, k, swapped, mcount, total_mult, col, err, ret, saved, snap>>

\* gauss_jordan_inverse, lines 32-37.
GJSwap ==
    /\ pc = "gj_swap"
    /\ IF GJIsSingularPivot(heap[MObj], pivot_row, k)
       THEN Raise(SingularInvert)
       ELSE /\ IF pivot_row # k
               THEN heap' = Store(heap, MObj, GJSwapRows(heap[MObj], k, pivot_row))
                    /\ swapped' = TRUE
               ELSE heap' = heap /\ swapped' = FALSE
            /\ pc' = "gj_elim"
            /\ UNCHANGED <<arith, op, k, pivot_row, mcount, total_mult, col, err, ret, saved, snap>>

\* gauss_jordan_inverse, lines 40-49, and the loop's next test.
GJEliminated(r) ==
    IF r.bad
    THEN Raise(ZeroDivision)
    ELSE /\ heap' = r.heap
         /\ k' = k + 1
         /\ pc' = IF k + 1 < N THEN "gj_select" ELSE "gj_extract"
         /\ UNCHANGED <<arith, op, pivot_row, swapped, mcount, total_mult, col, err, ret, saved, snap>>

GJElim ==
    /\ pc = "gj_elim"
    /\ GJEliminated(GJElimHeap(arith, heap, k))

\* gauss_jordan_inverse, lines 52-59.
GJReturn ==
    /\ pc = "gj_extract"
    /\ heap' = GJExtractHeap(heap)
    /\ ret' = [kind |-> "gj", A_inv |-> GJInvObj]
    /\ pc' = "gj_ret"
    /\ UNCHANGED <<arith, op, k, pivot_row, swapped, mcount, total_mult, col, err, saved, snap>>

\* The caller invokes inverse_matrix_dlineq_dreslv(A); main.py lines 10-17,
\* up to the entry of dlineq(A, e1).
CallInv ==
    /\ pc = "idle"
    /\ DlineqEntered(Store(Store(heap, InvObj, ZeroMatrix(N)), EObj, UnitVec(N, 0)), EObj)
    /\ op' = "inv"
    /\ total_mult' = 0
    /\ mcount' = 0
    /\ k' = 0
    /\ pc' = "dl_select"
    /\ UNCHANGED <<arith, pivot_row, swapped, col, err, ret, saved>>

\* main.py lines 17-20, after dlineq returned.
InvFirstCol ==
    /\ pc = "dl_ret"
    /\ op = "inv"
    /\ total_mult' = total_mult + ret.mcount
    /\ heap' = Store(heap, InvObj, SetCol(heap[InvObj], 0, heap[ret.x]))
    /\ col' = 1
    /\ pc' = IF 1 < N THEN "inv_loop" ELSE "inv_exit"
    /\ UNCHANGED <<arith, op, k, pivot_row, swapped, mcount, err, ret, saved, snap>>

\* main.py lines 23-29: one iteration of the loop over the remaining columns.
InvColSolved(r) ==
    IF r.bad
    THEN /\ pc' = "raised" /\ err' = ZeroDivision
         /\ UNCHANGED <<heap, mcount, ret, total_mult, col>>
    ELSE /\ heap' = Store(r.heap, InvObj, SetCol(r.heap[InvObj], col, r.heap[DrXObj]))
         /\ mcount' = r.mcount
         /\ ret' = [kind |-> "dreslv", x |-> DrXObj, mcount |-> r.mcount]
         /\ total_mult' = Accumulate(total_mult, saved.mcount, r.mcount)
         /\ col' = col + 1
         /\ pc' = IF col + 1 < N THEN "inv_loop" ELSE "inv_exit"
         /\ err' = err

InvColCalled(h0) ==
    /\ DreslvEntered(h0, EObj)
    /\ InvColSolved(DreslvHeap(arith, h0, saved.L, saved.U, saved.perm, EObj))

InvCol ==
    /\ pc = "inv_loop"
    /\ InvColCalled(Store(heap, EObj, UnitVec(N, col)))
    /\ UNCHANGED <<arith, op, k, pivot_row, swapped, saved>>

\* main.py line 31.
InvReturn ==
    /\ pc = "inv_exit"
    /\ ret' = [kind |-> "inv", A_inv |-> InvObj, total_mult |-> total_mult]
    /\ pc' = "inv_ret"
    /\ UNCHANGED <<arith, heap, op, k, pivot_row, swapped, mcount, total_mult, col, err, saved, snap>>

Next ==
    \/ CallDlineq
    \/ DlSelect
    \/ DlSwap
    \/ DlElim
    \/ DlSolve
    \/ CallDreslv
    \/ CallGJ
    \/ GJSelect
    \/ GJSwap
    \/ GJElim
    \/ GJReturn
    \/ CallInv
    \/ InvFirstCol
    \/ InvCol
    \/ InvReturn

Spec == Init /\ [][Next]_vars

SpecFloat == InitFloat /\ [][Next]_vars


\* ------------------------------------------------ arithmetic for claims
QAdd(a, b) == Norm(a[1] * b[2] + b[1] * a[2], a[2] * b[2])
QMul(a, b) == Norm(a[1] * b[1], a[2] * b[2])

RECURSIVE SumUpTo(_, _)
SumUpTo(f, n) == IF n = 0 THEN Zero ELSE QAdd(SumUpTo(f, n - 1), f[n])

\* sum over t of P[i][t] * Q[t][j], with 1-based i, j
Prod(P, Q, i, j) == SumUpTo([t \in 1..Len(Q) |-> QMul(P[i][t], Q[t][j])], Len(Q))
\* sum over t of P[i][t] * v[t]
ProdVec(P, v, i) == SumUpTo([t \in 1..Len(v) |-> QMul(P[i][t], v[t])], Len(v))

Idx == 1..N
FactorsReturned == saved # NoSaved
IsIdentityPerm(perm) == \A i \in DOMAIN perm : perm[i] = i - 1
HasZeroRow(A) == \E i \in DOMAIN A : \A j \in DOMAIN A[i] : A[i][j] = Zero

\* C1: once dlineq has returned (L, U, perm), L * U equals the rows of A
\* reordered by perm: sum_t L[i][t] * U[t][j] = A[perm[i]][j] for all i, j.
C1_RoundTrip ==
    FactorsReturned =>
        \A i \in Idx : \A j \in Idx :
            Prod(heap[saved.L], heap[saved.U], i, j) = heap.A[heap[saved.perm][i] + 1][j]

\* C1 happens: a 3 x 3 factorization that swapped rows at step 1, after step 0
\* had stored a nonzero multiplier.
C1_Witness ==
    /\ pc = "dl_ret"
    /\ N = 3
    /\ heap[saved.perm][2] # 1
    /\ \E i \in 2..3 : heap[saved.L][i][1] # Zero

\* C2: when dlineq(A, b) returns x, A * x = b in every row.
C2_SolveCorrect ==
    (pc = "dl_ret" /\ op = "dlineq") =>
        \A i \in Idx : ProdVec(heap.A, heap[ret.x], i) = heap.b[i]

\* C2 happens: dlineq returned after pivoting swapped rows, for a nonzero b.
C2_Witness ==
    /\ pc = "dl_ret"
    /\ op = "dlineq"
    /\ N = 3
    /\ ~IsIdentityPerm(heap[saved.perm])
    /\ \E i \in Idx : heap.b[i] # Zero
    /\ \E i \in Idx : heap[ret.x][i][2] > 1

\* C3: for a matrix with an all-zero row, dlineq and gauss_jordan_inverse
\* return nothing and raise the singular-matrix error: the run is in its
\* elimination loop before the last elimination, or has raised that error.
C3_SingularDetected ==
    (HasZeroRow(heap.A) /\ pc # "idle") =>
        /\ ret = NoRet
        /\ \/ pc \in {"dl_select", "dl_swap", "gj_select", "gj_swap"} /\ k < N /\ err = NoError
           \/ pc \in {"dl_elim", "gj_elim"} /\ k < N - 1 /\ err = NoError
           \/ pc = "raised" /\ op \in {"dlineq", "inv"} /\ err = SingularFactorize
           \/ pc = "raised" /\ op = "gj" /\ err = SingularInvert

\* C3 happens: a 3 x 3 matrix whose first row is zero and whose other rows are
\* not made dlineq raise at the last step.
C3_Witness ==
    /\ pc = "raised"
    /\ op = "dlineq"
    /\ N = 3
    /\ k = 2
    /\ \A j \in Idx : heap.A[1][j] = Zero
    /\ \A i \in 2..3 : \E j \in Idx : heap.A[i][j] # Zero

\* The object the parameter b of the last call was bound to.
LastBArg == IF op = "inv" THEN EObj ELSE IF pc = "dr_ret" THEN "b2" ELSE "b"
DreslvWasCalled == pc = "dr_ret" \/ (op = "inv" /\ col > 1)

\* C4: no kernel call changes its arguments: from the call on, running,
\* returned or raised, A and b hold what the caller passed, and after a
\* dreslv call the passed L, U and perm hold what they held at the call.
C4_ArgumentsUnchanged ==
    /\ pc # "idle" => heap.A = snap.A
    /\ (pc # "idle" /\ op # "gj") => heap[LastBArg] = snap.b
    /\ DreslvWasCalled =>
           /\ heap[saved.L] = snap.L
           /\ heap[saved.U] = snap.U
           /\ heap[saved.perm] = snap.perm

\* C4 happens: dreslv returned on factors whose computation swapped rows and
\* wrote U, and another dreslv call can follow.
C4_Witness ==
    /\ pc = "dr_ret"
    /\ N = 3
    /\ ~IsIdentityPerm(heap[saved.perm])
    /\ heap[saved.U] # heap.A
    /\ heap.b2 # heap.b

\* C5: dreslv on the factors of dlineq(A, b1) with a right-hand side b2
\* returns the x that dlineq(A, b2) returns, whatever calls came before.
C5_ReuseEquivalence ==
    (pc = "dr_ret") =>
        LET d == DlineqRun(arith, [EmptyHeap(heap.A) EXCEPT !.b = heap.b2], "b")
        IN  d.err = NoError /\ heap[ret.x] = d.heap[XObj]

\* C5 happens: a dreslv call for a b2 other than dlineq's b1, on factors with
\* a row swap, with a nonzero solution.
C5_Witness ==
    /\ pc = "dr_ret"
    /\ N = 3
    /\ heap.b2 # heap.b
    /\ ~IsIdentityPerm(heap[saved.perm])
    /\ \E i \in Idx : heap[ret.x][i] # Zero

IdentityMatrix(n) == [i \in 1..n |-> [j \in 1..n |-> IF i = j THEN One ELSE Zero]]

\* C6: inverse_matrix_dlineq_dreslv(A) returns the matrix that
\* gauss_jordan_inverse(A) returns, A times it is the identity, and for
\* A = [[4,7],[2,6]] it is [[0.6,-0.7],[-0.2,0.4]].
C6_InversionEquivalence ==
    (pc = "inv_ret") =>
        LET g == GJRun(arith, EmptyHeap(heap.A))
            Ainv == heap[ret.A_inv]
        IN  /\ g.err = NoError
            /\ Ainv = g.heap[GJInvObj]
            /\ \A i \in Idx : \A j \in Idx :
                   Prod(heap.A, Ainv, i, j) = IdentityMatrix(N)[i][j]
            /\ heap.A = NumMatrix(DemoA) =>
                   Ainv = <<<<Norm(6, 10), Norm(-7, 10)>>, <<Norm(-2, 10), Norm(4, 10)>>>>

\* C6 happens: the inverse of [[4,7],[2,6]] was returned.
C6_Witness ==
    /\ pc = "inv_ret"
    /\ heap.A = NumMatrix(DemoA)
    /\ heap[ret.A_inv][1][2] = Norm(-7, 10)

IsPermutation(perm, n) == Len(perm) = n /\ {perm[i] : i \in 1..n} = 0..(n - 1)
IsSquare(M, n) == Len(M) = n /\ \A i \in 1..n : Len(M[i]) = n
InDlineq == op \in {"dlineq", "inv"} /\ pc # "idle"

\* C7: through every step of dlineq perm is a permutation of 0..n-1 and L and
\* U are n x n; in the factors dlineq returns, L has a unit diagonal and
\* zeros above it and U has zeros below its diagonal.
C7_WellFormedFactors ==
    /\ InDlineq =>
           /\ IsPermutation(heap[PermObj], N)
           /\ IsSquare(heap[LObj], N)
           /\ IsSquare(heap[UObj], N)
    /\ FactorsReturned =>
           /\ \A i \in Idx : heap[saved.L][i][i] = One
           /\ \A i \in Idx : \A j \in Idx : j > i => heap[saved.L][i][j] = Zero
           /\ \A i \in Idx : \A j \in Idx : i > j => heap[saved.U][i][j] = Zero

\* The calls dlineq(A, e_c) for c = 0..n-1, each from scratch: their counts added.
RECURSIVE IndependentSolves(_, _, _)
IndependentSolves(ar, A, c) ==
    IF c >= Len(A) THEN 0
    ELSE DlineqRun(ar, [EmptyHeap(A) EXCEPT !.b = UnitVec(Len(A), c)], "b").mcount
             + IndependentSolves(ar, A, c + 1)

\* C8 as stated: for every n >= 1 the count inverse_matrix_dlineq_dreslv
\* returns is strictly less than the counts of n independent dlineq calls.
C8_CountStrictlyLess ==
    (pc = "inv_ret") => ret.total_mult < IndependentSolves(arith, heap.A, 0)

\* C8 amended: for every n >= 2 the count inverse_matrix_dlineq_dreslv returns
\* is strictly less than the counts of n independent dlineq calls.
C8_CountStrictlyLessFromTwo ==
    (pc = "inv_ret" /\ N >= 2) => ret.total_mult < IndependentSolves(arith, heap.A, 0)

\* C8 happens: a 3 x 3 inverse was returned, two of its columns by dreslv.
C8_Witness ==
    /\ pc = "inv_ret"
    /\ N = 3
    /\ col = 3
    /\ ret.total_mult > saved.mcount

\* C9: the singular-matrix error carries the pivot column index k at which
\* the selected pivot was zero.
C9_ErrorCarriesStep ==
    (pc = "raised" /\ err.type = "ValueError") =>
        \E i \in DOMAIN err.args : err.args[i] = ToString(k)

QAbs(a) == <<IAbs(a[1]), a[2]>>
QGe(a, b) == a[1] * b[2] >= b[1] * a[2]
\* p is the first row in kk..n-1 whose entry in column kk has the largest magnitude
IsFirstMax(M, kk, p) ==
    /\ p \in kk..(N - 1)
    /\ \A r \in kk..(N - 1) : QGe(QAbs(At(M, p, kk)), QAbs(At(M, r, kk)))
    /\ \A r \in kk..(p - 1) : ~QGe(QAbs(At(M, r, kk)), QAbs(At(M, p, kk)))

\* C10: at every elimination step k of dlineq and of gauss_jordan_inverse the
\* chosen pivot_row is the smallest index in k..n-1 whose column-k entry has
\* the maximum magnitude, and rows are swapped only when pivot_row # k.
C10_PivotSelection ==
    /\ pc = "dl_swap" => IsFirstMax(heap[UObj], k, pivot_row)
    /\ pc = "gj_swap" => IsFirstMax(heap[MObj], k, pivot_row)
    /\ pc \in {"dl_elim", "gj_elim"} => (swapped => pivot_row # k)

\* C10 happens: at step 0 of a 3 x 3 factorization rows 1 and 2 tie for the
\* maximum magnitude, above row 0, and row 1 is chosen.
C10_Witness ==
    /\ pc = "dl_swap"
    /\ N = 3
    /\ k = 0
    /\ pivot_row = 1
    /\ QAbs(At(heap[UObj], 1, 0)) = QAbs(At(heap[UObj], 2, 0))

\* Column c of the left half of M is the c-th unit column (c 0-based).
IsUnitColumn(M, c) ==
    \A r \in 0..(Len(M) - 1) : At(M, r, c) = (IF r = c THEN One ELSE Zero)

\* C11: in gauss_jordan_inverse, once the iterations for the pivot columns
\* 0..k-1 have completed, every left-half column c < k of M is the c-th unit
\* column, at every later point of the call (pivot search, singular test, swap,
\* extraction, raise), so on return the left half of M is the identity.
C11_GaussJordanInvariant ==
    (op = "gj" /\ pc # "idle") =>
        /\ \A c \in 0..(k - 1) : IsUnitColumn(heap[MObj], c)
        /\ pc \in {"gj_extract", "gj_ret"} => k = N

\* C11 happens: two iterations of a 3 x 3 inversion are done, the second after
\* a swap, for a matrix whose row 0 had entries above the diagonal to clear.
C11_Witness ==
    /\ op = "gj"
    /\ pc = "gj_select"
    /\ N = 3
    /\ k = 2
    /\ swapped
    /\ heap.A[1][2] # Zero
    /\ heap.A[1][3] # Zero

\* The multiplications of a factorization of dimension n: one for each pass of
\* the innermost elimination loop, that is for each k < n, i in k+1..n-1 and
\* j in k..n-1.
ElimMults(n) ==
    Cardinality({t \in (0..(n - 1)) \X (0..(n - 1)) \X (0..(n - 1)) :
                    t[1] < t[2] /\ t[1] <= t[3]})

\* The count a dreslv call on the factors the caller holds returns for the
\* right-hand side in the object bref.
SolveCount(bref) == DreslvHeap(arith, heap, saved.L, saved.U, saved.perm, bref).mcount

\* C12: the count dlineq returns is the number of elimination multiplications
\* plus the count dreslv returns on the resulting factors for the same b; every
\* dreslv call, whatever calls came before, returns the count of a call that
\* starts from 0; and the total inverse_matrix_dlineq_dreslv returns is one
\* factorization's elimination count plus n times the count of one solve.
C12_CountAccounting ==
    /\ pc = "dl_ret" => ret.mcount = ElimMults(N) + SolveCount(BRef)
    /\ pc = "dr_ret" =>
           /\ ret.mcount = SolveCount("b2")
           /\ saved.mcount = ElimMults(N) + ret.mcount
    /\ pc = "inv_ret" => ret.total_mult = ElimMults(N) + N * SolveCount(EObj)

\* C12 happens: a 3 x 3 inverse was returned with a total made of elimination
\* and solve multiplications, the last column solved by dreslv.
C12_Witness ==
    /\ pc = "inv_ret"
    /\ N = 3
    /\ mcount > 0
    /\ ret.total_mult = saved.mcount + 2 * mcount
    /\ saved.mcount > mcount

\* The factorization loop of the running or last dlineq call has finished
\* without raising.
FactorizationDone ==
    /\ op \in {"dlineq", "inv"}
    /\ pc \in {"dl_solve", "dl_ret", "dr_ret", "inv_loop", "inv_exit", "inv_ret"}

\* C13: once dlineq's factorization loop has finished without raising, every
\* U[i][i] is nonzero, and no division by zero happens in dlineq or in any
\* later dreslv call: a call of dlineq or inverse_matrix_dlineq_dreslv that
\* fails has failed with the singular-matrix error, raised inside the loop.
C13_NoDivisionByZero ==
    /\ FactorizationDone => \A i \in 0..(N - 1) : At(heap[UObj], i, i) # Zero
    /\ (op \in {"dlineq", "inv"} /\ pc = "raised") =>
           /\ err = SingularFactorize
           /\ saved = NoSaved
    /\ err # ZeroDivision

\* C13 happens: dreslv returned on the factors of a 3 x 3 matrix whose entry
\* A[0][0] is zero, so that only the row swap put a nonzero pivot at U[0][0].
C13_Witness ==
    /\ pc = "dr_ret"
    /\ N = 3
    /\ heap.A[1][1] = Zero
    /\ heap[saved.perm][1] # 0
    /\ \E i \in 1..N : heap[ret.x][i] # Zero

=============================================================================
